---- MODULE Spec2Model ----
(***************************************************************************)
(* ConditionalLogicEngine (src/src/questions/utils/conditionalLogic.ts):   *)
(* the engine that derives, for every question of a questionnaire, whether *)
(* it is visible, required and disabled from the questions' conditions and *)
(* the stored responses, with three per-question caches that               *)
(* updateResponse invalidates along the dependency edges.                  *)
(***************************************************************************)
EXTENDS Integers, Sequences, FiniteSets, TLC

VARIABLES
    questions,        \* this.questions: Map in insertion order, a sequence of question records
    responses,        \* this.responses: id -> stored response value, a function on the stored keys
    visibilityCache,  \* this.visibilityCache: id -> boolean, a function on the cached keys
    requiredCache,    \* this.requiredCache
    disabledCache,    \* this.disabledCache
    ret,              \* what the last public call returned (or that it raised)
    callerQuestions,  \* the questions array the caller passed to the constructor, as it is now
    callerResponses,  \* the responses record the caller passed to the constructor, as it is now
    twin              \* the fields of a second engine constructed from the same arguments

vars == <<questions, responses, visibilityCache, requiredCache, disabledCache, ret,
          callerQuestions, callerResponses, twin>>

\* What lies outside the engine that is being called.
outside == <<callerQuestions, callerResponses, twin>>

-----------------------------------------------------------------------------
(* Bounds *)

\* Number of nested getDependentQuestions frames the call stack holds; one
\* more raises RangeError.  Every acyclic walk over the question sets below
\* is shallower than this.
StackLimit == 6

\* Largest number of conditions in a question set of the dependency-walk
\* specification.
MaxDepEdges == 4

\* Longest questions array the caller grows by push.
MaxCallerQuestions == 3

-----------------------------------------------------------------------------
(* Values: a response's `value` and a condition's `value` operand.          *)
(* A string is a sequence of one-character strings.                         *)

Undefined == [t |-> "undefined", v |-> <<>>]
Null      == [t |-> "null", v |-> <<>>]
Str(s)    == [t |-> "string", v |-> s]
Num(n)    == [t |-> "number", v |-> n]
Bool(b)   == [t |-> "boolean", v |-> b]
Arr(a)    == [t |-> "array", v |-> a]

\* a === b.  Primitives are equal when type and value agree; an array is an
\* object and the response's array is never the condition's array object.
StrictEquals(a, b) ==
    /\ a.t = b.t
    /\ a.t # "array"
    /\ a.v = b.v

\* Array.prototype.includes(x)
ArrayIncludes(a, x) == \E i \in 1..Len(a) : StrictEquals(a[i], x)

\* StringIncludes as startsWith.
StringIncludesAtStart(s, needle) ==
    /\ Len(needle) <= Len(s)
    /\ SubSeq(s, 1, Len(needle)) = needle

\* String.prototype.includes(needle)
StringIncludes(s, needle) ==
    \E i \in 1..(Len(s) + 1) :
        /\ i + Len(needle) - 1 <= Len(s)
        /\ SubSeq(s, i, i + Len(needle) - 1) = needle

WhiteSpace == {" ", "\t", "\n"}

\* TrimIsEmpty without the trim.
TrimIsEmptyUntrimmed(s) == s = << >>

\* String.prototype.trim() === ''
TrimIsEmpty(s) == \A i \in 1..Len(s) : s[i] \in WhiteSpace

Operators ==
    {"equals", "not-equals", "contains", "not-contains", "greater-than",
     "less-than", "greater-than-or-equal", "less-than-or-equal", "in",
     "not-in", "is-empty", "is-not-empty"}

Actions == {"show", "hide", "require", "disable", "enable"}

\* NumericCompare with greater-than-or-equal written as greater-than.
NumericCompareStrict(op, value, cv) ==
    /\ value.t = "number"
    /\ cv.t = "number"
    /\ CASE op = "greater-than" -> value.v > cv.v
         [] op = "less-than" -> value.v < cv.v
         [] op = "greater-than-or-equal" -> value.v > cv.v
         [] OTHER -> value.v <= cv.v

\* The relational operators: both sides must be numbers.
NumericCompare(op, value, cv) ==
    /\ value.t = "number"
    /\ cv.t = "number"
    /\ CASE op = "greater-than" -> value.v > cv.v
         [] op = "less-than" -> value.v < cv.v
         [] op = "greater-than-or-equal" -> value.v >= cv.v
         [] OTHER -> value.v <= cv.v

\* case 'contains'
Contains(value, cv) ==
    IF value.t = "string" /\ cv.t = "string" THEN StringIncludes(value.v, cv.v)
    ELSE IF value.t = "array" THEN ArrayIncludes(value.v, cv)
    ELSE FALSE

\* case 'not-contains'
NotContains(value, cv) ==
    IF value.t = "string" /\ cv.t = "string" THEN ~StringIncludes(value.v, cv.v)
    ELSE IF value.t = "array" THEN ~ArrayIncludes(value.v, cv)
    ELSE TRUE

\* case 'in'
In(value, cv) == IF cv.t # "array" THEN FALSE ELSE ArrayIncludes(cv.v, value)

\* NotIn as the plain negation of In: met for an operand that is no array.
NotInVacuous(value, cv) == ~(cv.t = "array" /\ ArrayIncludes(cv.v, value))

\* case 'not-in'
NotIn(value, cv) == IF cv.t # "array" THEN FALSE ELSE ~ArrayIncludes(cv.v, value)

\* case 'is-empty'
IsEmpty(value) ==
    IF value.t \in {"null", "undefined"} THEN TRUE
    ELSE IF value.t = "array" THEN Len(value.v) = 0
    ELSE IF value.t = "string" THEN TrimIsEmpty(value.v)
    ELSE FALSE

\* case 'is-not-empty'
IsNotEmpty(value) ==
    IF value.t \in {"null", "undefined"} THEN FALSE
    ELSE IF value.t = "array" THEN Len(value.v) > 0
    ELSE IF value.t = "string" THEN ~TrimIsEmpty(value.v)
    ELSE TRUE

\* evaluateCondition with an unknown operator counted as met.
evaluateConditionUnknownMet(condition, value) ==
    LET cv == condition.value
        op == condition.operator
    IN
    CASE op = "equals" -> StrictEquals(value, cv)
      [] op = "not-equals" -> ~StrictEquals(value, cv)
      [] op = "contains" -> Contains(value, cv)
      [] op = "not-contains" -> NotContains(value, cv)
      [] op \in {"greater-than", "less-than", "greater-than-or-equal",
                 "less-than-or-equal"} -> NumericCompare(op, value, cv)
      [] op = "in" -> In(value, cv)
      [] op = "not-in" -> NotIn(value, cv)
      [] op = "is-empty" -> IsEmpty(value)
      [] op = "is-not-empty" -> IsNotEmpty(value)
      [] OTHER -> TRUE

\* evaluateCondition(condition, value)
evaluateCondition(condition, value) ==
    LET cv == condition.value
        op == condition.operator
    IN
    CASE op = "equals" -> StrictEquals(value, cv)
      [] op = "not-equals" -> ~StrictEquals(value, cv)
      [] op = "contains" -> Contains(value, cv)
      [] op = "not-contains" -> NotContains(value, cv)
      [] op \in {"greater-than", "less-than", "greater-than-or-equal",
                 "less-than-or-equal"} -> NumericCompare(op, value, cv)
      [] op = "in" -> In(value, cv)
      [] op = "not-in" -> NotIn(value, cv)
      [] op = "is-empty" -> IsEmpty(value)
      [] op = "is-not-empty" -> IsNotEmpty(value)
      [] OTHER -> FALSE     \* console.warn, then not met

\* WarnsOn with the default branch silent.
WarnsOnSilent(condition) == 0

\* The default branch emits one console.warn per evaluation.
WarnsOn(condition) == IF condition.operator \in Operators THEN 0 ELSE 1

-----------------------------------------------------------------------------
(* Maps *)

EmptyMap == << >>
\* three new Map()s
EmptyCaches == [v |-> EmptyMap, r |-> EmptyMap, d |-> EmptyMap]
MapHas(m, k) == k \in DOMAIN m
MapGet(m, k) == IF k \in DOMAIN m THEN m[k] ELSE "undefined"
MapSet(m, k, x) == [y \in (DOMAIN m) \cup {k} |-> IF y = k THEN x ELSE m[y]]
MapDelete(m, k) == [y \in (DOMAIN m) \ {k} |-> m[y]]

MapDeleteAll(m, ks) == [y \in (DOMAIN m) \ ks |-> m[y]]

-----------------------------------------------------------------------------
(* The engine's index *)

\* the keys of this.questions
KnownIds == {questions[i].id : i \in 1..Len(questions)}

\* this.questions.get(id), for a known id
Question(id) == questions[CHOOSE i \in 1..Len(questions) : questions[i].id = id]

\* this.responses.get(id)?.value
\* ResponseValue counting the response of a question cached as hidden as
\* absent.
ResponseValueIfVisible(id) ==
    IF MapHas(responses, id) /\ ~(MapHas(visibilityCache, id) /\ ~visibilityCache[id])
    THEN responses[id] ELSE Undefined

\* this.responses.get(id)?.value
ResponseValue(id) == IF MapHas(responses, id) THEN responses[id] ELSE Undefined

DefaultState == [visible |-> TRUE, required |-> FALSE, disabled |-> FALSE]

\* ApplyCondition with `show` and `hide` written as overwrites of visible.
ApplyConditionOverwrite(state, condition) ==
    LET conditionMet == evaluateCondition(condition, ResponseValue(condition.questionId))
    IN
    CASE condition.action = "show" -> [state EXCEPT !.visible = conditionMet]
      [] condition.action = "hide" -> [state EXCEPT !.visible = ~conditionMet]
      [] condition.action = "require" ->
            IF conditionMet THEN [state EXCEPT !.required = TRUE] ELSE state
      [] condition.action = "disable" -> [state EXCEPT !.disabled = conditionMet]
      [] condition.action = "enable" -> [state EXCEPT !.disabled = ~conditionMet]
      [] OTHER -> state

\* ApplyCondition with `hide` acting when its condition is not met.
ApplyConditionHideInverted(state, condition) ==
    LET conditionMet == evaluateCondition(condition, ResponseValue(condition.questionId))
    IN
    CASE condition.action = "show" ->
            IF ~conditionMet THEN [state EXCEPT !.visible = FALSE] ELSE state
      [] condition.action = "hide" ->
            IF ~conditionMet THEN [state EXCEPT !.visible = FALSE] ELSE state
      [] condition.action = "require" ->
            IF conditionMet THEN [state EXCEPT !.required = TRUE] ELSE state
      [] condition.action = "disable" ->
            IF conditionMet THEN [state EXCEPT !.disabled = TRUE] ELSE state
      [] condition.action = "enable" ->
            IF ~conditionMet THEN [state EXCEPT !.disabled = TRUE] ELSE state
      [] OTHER -> state

\* ApplyCondition with `require` assigning the outcome of its condition.
ApplyConditionRequireAssigns(state, condition) ==
    LET conditionMet == evaluateCondition(condition, ResponseValue(condition.questionId))
    IN
    CASE condition.action = "show" ->
            IF ~conditionMet THEN [state EXCEPT !.visible = FALSE] ELSE state
      [] condition.action = "hide" ->
            IF conditionMet THEN [state EXCEPT !.visible = FALSE] ELSE state
      [] condition.action = "require" -> [state EXCEPT !.required = conditionMet]
      [] condition.action = "disable" ->
            IF conditionMet THEN [state EXCEPT !.disabled = TRUE] ELSE state
      [] condition.action = "enable" ->
            IF ~conditionMet THEN [state EXCEPT !.disabled = TRUE] ELSE state
      [] OTHER -> state

\* ApplyCondition with `enable` acting when its condition is met.
ApplyConditionEnableInverted(state, condition) ==
    LET conditionMet == evaluateCondition(condition, ResponseValue(condition.questionId))
    IN
    CASE condition.action = "show" ->
            IF ~conditionMet THEN [state EXCEPT !.visible = FALSE] ELSE state
      [] condition.action = "hide" ->
            IF conditionMet THEN [state EXCEPT !.visible = FALSE] ELSE state
      [] condition.action = "require" ->
            IF conditionMet THEN [state EXCEPT !.required = TRUE] ELSE state
      [] condition.action = "disable" ->
            IF conditionMet THEN [state EXCEPT !.disabled = TRUE] ELSE state
      [] condition.action = "enable" ->
            IF conditionMet THEN [state EXCEPT !.disabled = TRUE] ELSE state
      [] OTHER -> state

\* ApplyCondition with `disable` assigning the outcome of its condition.
ApplyConditionDisableAssigns(state, condition) ==
    LET conditionMet == evaluateCondition(condition, ResponseValue(condition.questionId))
    IN
    CASE condition.action = "show" ->
            IF ~conditionMet THEN [state EXCEPT !.visible = FALSE] ELSE state
      [] condition.action = "hide" ->
            IF conditionMet THEN [state EXCEPT !.visible = FALSE] ELSE state
      [] condition.action = "require" ->
            IF conditionMet THEN [state EXCEPT !.required = TRUE] ELSE state
      [] condition.action = "disable" -> [state EXCEPT !.disabled = conditionMet]
      [] condition.action = "enable" ->
            IF ~conditionMet THEN [state EXCEPT !.disabled = TRUE] ELSE state
      [] OTHER -> state

\* ApplyCondition with a `hide` that is not met turning visible back on.
ApplyConditionHideRestores(state, condition) ==
    LET conditionMet == evaluateCondition(condition, ResponseValue(condition.questionId))
    IN
    CASE condition.action = "show" ->
            IF ~conditionMet THEN [state EXCEPT !.visible = FALSE] ELSE state
      [] condition.action = "hide" -> [state EXCEPT !.visible = ~conditionMet]
      [] condition.action = "require" ->
            IF conditionMet THEN [state EXCEPT !.required = TRUE] ELSE state
      [] condition.action = "disable" ->
            IF conditionMet THEN [state EXCEPT !.disabled = TRUE] ELSE state
      [] condition.action = "enable" ->
            IF ~conditionMet THEN [state EXCEPT !.disabled = TRUE] ELSE state
      [] OTHER -> state

\* One iteration of the loop over question.conditions: evaluate the
\* condition against the referenced response and apply its action.
ApplyCondition(state, condition) ==
    LET conditionMet == evaluateCondition(condition, ResponseValue(condition.questionId))
    IN
    CASE condition.action = "show" ->
            IF ~conditionMet THEN [state EXCEPT !.visible = FALSE] ELSE state
      [] condition.action = "hide" ->
            IF conditionMet THEN [state EXCEPT !.visible = FALSE] ELSE state
      [] condition.action = "require" ->
            IF conditionMet THEN [state EXCEPT !.required = TRUE] ELSE state
      [] condition.action = "disable" ->
            IF conditionMet THEN [state EXCEPT !.disabled = TRUE] ELSE state
      [] condition.action = "enable" ->
            IF ~conditionMet THEN [state EXCEPT !.disabled = TRUE] ELSE state
      [] OTHER -> state

RECURSIVE FoldConditions(_, _, _)
FoldConditions(conditions, i, state) ==
    IF i > Len(conditions) THEN state
    ELSE FoldConditions(conditions, i + 1, ApplyCondition(state, conditions[i]))

\* The uncached part of getQuestionState for a known question: the fold of
\* its conditions, in declaration order, from {true, question.required, false}.
ComputeState(questionId) ==
    LET question == Question(questionId)
    IN FoldConditions(question.conditions, 1,
                      [visible |-> TRUE, required |-> question.required, disabled |-> FALSE])

RECURSIVE SumWarns(_, _)
SumWarns(conditions, i) ==
    IF i > Len(conditions) THEN 0
    ELSE WarnsOn(conditions[i]) + SumWarns(conditions, i + 1)

\* QuestionStateCall caching the initial values instead of the folded ones.
QuestionStateCallStoresInitial(c, questionId) ==
    IF questionId \notin KnownIds
    THEN [state |-> DefaultState, caches |-> c, evaluated |-> 0, warned |-> 0]
    ELSE IF MapHas(c.v, questionId)
    THEN [state |-> [visible |-> MapGet(c.v, questionId),
                     required |-> MapGet(c.r, questionId),
                     disabled |-> MapGet(c.d, questionId)],
          caches |-> c, evaluated |-> 0, warned |-> 0]
    ELSE LET s == ComputeState(questionId)
             conditions == Question(questionId).conditions
         IN [state |-> s,
             caches |-> [v |-> MapSet(c.v, questionId, TRUE),
                         r |-> MapSet(c.r, questionId, Question(questionId).required),
                         d |-> MapSet(c.d, questionId, FALSE)],
             evaluated |-> Len(conditions),
             warned |-> SumWarns(conditions, 1)]

\* QuestionStateCall without the early return for an unknown id: the default
\* triple goes through the cache like any other.
QuestionStateCallCachesUnknown(c, questionId) ==
    IF MapHas(c.v, questionId)
    THEN [state |-> [visible |-> MapGet(c.v, questionId),
                     required |-> MapGet(c.r, questionId),
                     disabled |-> MapGet(c.d, questionId)],
          caches |-> c, evaluated |-> 0, warned |-> 0]
    ELSE LET known == questionId \in KnownIds
             s == IF known THEN ComputeState(questionId) ELSE DefaultState
             conditions == IF known THEN Question(questionId).conditions ELSE << >>
         IN [state |-> s,
             caches |-> [v |-> MapSet(c.v, questionId, s.visible),
                         r |-> MapSet(c.r, questionId, s.required),
                         d |-> MapSet(c.d, questionId, s.disabled)],
             evaluated |-> Len(conditions),
             warned |-> SumWarns(conditions, 1)]

\* getQuestionState(questionId) run against the caches c = [v, r, d]:
\* the triple it returns, the caches it leaves, and how many conditions it
\* evaluated and how many warnings it logged.
QuestionStateCall(c, questionId) ==
    IF questionId \notin KnownIds
    THEN [state |-> DefaultState, caches |-> c, evaluated |-> 0, warned |-> 0]
    ELSE IF MapHas(c.v, questionId)
    THEN [state |-> [visible |-> MapGet(c.v, questionId),
                     required |-> MapGet(c.r, questionId),
                     disabled |-> MapGet(c.d, questionId)],
          caches |-> c, evaluated |-> 0, warned |-> 0]
    ELSE LET s == ComputeState(questionId)
             conditions == Question(questionId).conditions
         IN [state |-> s,
             caches |-> [v |-> MapSet(c.v, questionId, s.visible),
                         r |-> MapSet(c.r, questionId, s.required),
                         d |-> MapSet(c.d, questionId, s.disabled)],
             evaluated |-> Len(conditions),
             warned |-> SumWarns(conditions, 1)]

Caches == [v |-> visibilityCache, r |-> requiredCache, d |-> disabledCache]

\* VisibleLoop computing every state without storing it.
RECURSIVE VisibleLoopNoStore(_, _)
VisibleLoopNoStore(i, acc) ==
    IF i > Len(questions) THEN acc
    ELSE LET call == QuestionStateCall(acc.caches, questions[i].id)
         IN VisibleLoopNoStore(i + 1,
                [visible |-> IF call.state.visible = TRUE
                             THEN acc.visible \cup {questions[i].id}
                             ELSE acc.visible,
                 caches |-> acc.caches,
                 evaluated |-> acc.evaluated + call.evaluated,
                 warned |-> acc.warned + call.warned])

\* The loop of getVisibleQuestions over this.questions.values().
RECURSIVE VisibleLoop(_, _)
VisibleLoop(i, acc) ==
    IF i > Len(questions) THEN acc
    ELSE LET call == QuestionStateCall(acc.caches, questions[i].id)
         IN VisibleLoop(i + 1,
                [visible |-> IF call.state.visible = TRUE
                             THEN acc.visible \cup {questions[i].id}
                             ELSE acc.visible,
                 caches |-> call.caches,
                 evaluated |-> acc.evaluated + call.evaluated,
                 warned |-> acc.warned + call.warned])

\* DependentsWalk collecting the direct dependents only.
RECURSIVE DependentsWalkDirect(_, _, _, _, _)
DependentsWalkDirect(questionId, depth, i, j, dependents) ==
    IF i > Len(questions) THEN [raised |-> FALSE, ids |-> dependents]
    ELSE IF j > Len(questions[i].conditions)
    THEN DependentsWalkDirect(questionId, depth, i + 1, 1, dependents)
    ELSE IF questions[i].conditions[j].questionId = questionId
    THEN DependentsWalkDirect(questionId, depth, i, j + 1,
                              dependents \cup {questions[i].id})
    ELSE DependentsWalkDirect(questionId, depth, i, j + 1, dependents)

\* getDependentQuestions(questionId), entered with `depth` frames of it on
\* the stack.  Returns [raised, ids]; a frame beyond StackLimit raises
\* RangeError, which no caller catches.
RECURSIVE DependentsWalk(_, _, _, _, _)
DependentsWalk(questionId, depth, i, j, dependents) ==
    IF depth > StackLimit THEN [raised |-> TRUE, ids |-> {}]
    ELSE IF i > Len(questions) THEN [raised |-> FALSE, ids |-> dependents]
    ELSE IF j > Len(questions[i].conditions)
    THEN DependentsWalk(questionId, depth, i + 1, 1, dependents)
    ELSE IF questions[i].conditions[j].questionId = questionId
    THEN LET nestedDependents == DependentsWalk(questions[i].id, depth + 1, 1, 1, {})
         IN IF nestedDependents.raised
            THEN [raised |-> TRUE, ids |-> {}]
            ELSE DependentsWalk(questionId, depth, i, j + 1,
                                dependents \cup {questions[i].id} \cup nestedDependents.ids)
    ELSE DependentsWalk(questionId, depth, i, j + 1, dependents)

getDependentQuestions(questionId) == DependentsWalk(questionId, 1, 1, 1, {})

-----------------------------------------------------------------------------
(* getEvaluationPath's rendering of a condition *)

RECURSIVE Digits(_)
Digits(n) ==
    IF n < 0 THEN <<"-">> \o Digits(0 - n)
    ELSE IF n < 10 THEN <<ToString(n)>>
    ELSE Digits(n \div 10) \o <<ToString(n % 10)>>

\* String(x) of a scalar, as a sequence of characters
ScalarText(x) ==
    CASE x.t = "undefined" -> <<"u", "n", "d", "e", "f", "i", "n", "e", "d">>
      [] x.t = "null" -> <<"n", "u", "l", "l">>
      [] x.t = "boolean" ->
            IF x.v THEN <<"t", "r", "u", "e">> ELSE <<"f", "a", "l", "s", "e">>
      [] x.t = "number" -> Digits(x.v)
      [] OTHER -> x.v

\* Array.prototype.join(','): null and undefined elements render empty
RECURSIVE JoinText(_, _)
JoinText(a, i) ==
    IF i > Len(a) THEN << >>
    ELSE (IF a[i].t \in {"undefined", "null"} THEN << >> ELSE ScalarText(a[i]))
         \o (IF i < Len(a) THEN <<",">> ELSE << >>)
         \o JoinText(a, i + 1)

\* `${condition.value}`
ValueText(x) == IF x.t = "array" THEN JoinText(x.v, 1) ELSE ScalarText(x)

\* One line of getEvaluationPath, as its five interpolated parts.
PathEntry(condition) ==
    LET dependentText == IF condition.questionId \in KnownIds
                         THEN Question(condition.questionId).text
                         ELSE ""
    IN [label |-> IF dependentText # "" THEN dependentText ELSE condition.questionId,
        operator |-> condition.operator,
        value |-> ValueText(condition.value),
        action |-> condition.action,
        met |-> IF evaluateCondition(condition, ResponseValue(condition.questionId))
                THEN "MET" ELSE "NOT MET"]

-----------------------------------------------------------------------------
(* What a call returns *)

NoReturn ==
    [op |-> "constructor", arg |-> "", state |-> DefaultState, ids |-> {},
     path |-> << >>, raised |-> FALSE, evaluated |-> 0, warned |-> 0]

-----------------------------------------------------------------------------
(* The public operations *)

GetQuestionState(questionId) ==
    LET call == QuestionStateCall(Caches, questionId)
    IN /\ visibilityCache' = call.caches.v
       /\ requiredCache' = call.caches.r
       /\ disabledCache' = call.caches.d
       /\ ret' = [NoReturn EXCEPT !.op = "getQuestionState", !.arg = questionId,
                                  !.state = call.state,
                                  !.evaluated = call.evaluated, !.warned = call.warned]
       /\ UNCHANGED <<questions, responses>>
       /\ UNCHANGED outside

GetVisibleQuestions ==
    LET loop == VisibleLoop(1, [visible |-> {}, caches |-> Caches,
                                evaluated |-> 0, warned |-> 0])
    IN /\ visibilityCache' = loop.caches.v
       /\ requiredCache' = loop.caches.r
       /\ disabledCache' = loop.caches.d
       /\ ret' = [NoReturn EXCEPT !.op = "getVisibleQuestions", !.ids = loop.visible,
                                  !.evaluated = loop.evaluated, !.warned = loop.warned]
       /\ UNCHANGED <<questions, responses>>
       /\ UNCHANGED outside

GetDependentQuestions(questionId) ==
    LET dependents == getDependentQuestions(questionId)
    IN /\ ret' = [NoReturn EXCEPT !.op = "getDependentQuestions", !.arg = questionId,
                                  !.ids = dependents.ids, !.raised = dependents.raised]
       /\ UNCHANGED <<questions, responses, visibilityCache, requiredCache, disabledCache>>
       /\ UNCHANGED outside

\* clearCache deleting the question's own entries only.
clearCacheOwnOnly(questionId) ==
    [raised |-> FALSE,
     caches |-> [v |-> MapDelete(visibilityCache, questionId),
                 r |-> MapDelete(requiredCache, questionId),
                 d |-> MapDelete(disabledCache, questionId)]]

\* clearCache deleting the dependents from the visibility cache only.
clearCacheVisibilityOnly(questionId) ==
    LET dependents == getDependentQuestions(questionId)
        gone == IF dependents.raised THEN {questionId}
                ELSE {questionId} \cup dependents.ids
    IN [raised |-> dependents.raised,
        caches |-> [v |-> MapDeleteAll(visibilityCache, gone),
                    r |-> MapDelete(requiredCache, questionId),
                    d |-> MapDelete(disabledCache, questionId)]]

\* clearCache(questionId): the caches it leaves and whether it raised.  The
\* question's own entries are deleted before the dependency walk starts.
clearCache(questionId) ==
    LET dependents == getDependentQuestions(questionId)
        gone == IF dependents.raised THEN {questionId}
                ELSE {questionId} \cup dependents.ids
    IN [raised |-> dependents.raised,
        caches |-> [v |-> MapDeleteAll(visibilityCache, gone),
                    r |-> MapDeleteAll(requiredCache, gone),
                    d |-> MapDeleteAll(disabledCache, gone)]]

\* UpdateResponse recomputing the question's own state right away.
UpdateResponseEager(questionId, response) ==
    LET cleared == clearCache(questionId)
        s == IF questionId \in KnownIds THEN ComputeState(questionId) ELSE DefaultState
    IN /\ responses' = MapSet(responses, questionId, response)
       /\ visibilityCache' = MapSet(cleared.caches.v, questionId, s.visible)
       /\ requiredCache' = MapSet(cleared.caches.r, questionId, s.required)
       /\ disabledCache' = MapSet(cleared.caches.d, questionId, s.disabled)
       /\ ret' = [NoReturn EXCEPT !.op = "updateResponse", !.arg = questionId,
                                  !.raised = cleared.raised]
       /\ UNCHANGED questions
       /\ UNCHANGED outside

UpdateResponse(questionId, response) ==
    LET cleared == clearCache(questionId)
    IN /\ responses' = MapSet(responses, questionId, response)
       /\ visibilityCache' = cleared.caches.v
       /\ requiredCache' = cleared.caches.r
       /\ disabledCache' = cleared.caches.d
       /\ ret' = [NoReturn EXCEPT !.op = "updateResponse", !.arg = questionId,
                                  !.raised = cleared.raised]
       /\ UNCHANGED questions
       /\ UNCHANGED outside

GetEvaluationPath(questionId) ==
    LET conditions == IF questionId \in KnownIds
                      THEN Question(questionId).conditions ELSE << >>
    IN /\ ret' = [NoReturn EXCEPT !.op = "getEvaluationPath", !.arg = questionId,
                                  !.path = [i \in 1..Len(conditions) |-> PathEntry(conditions[i])],
                                  !.evaluated = Len(conditions),
                                  !.warned = SumWarns(conditions, 1)]
       /\ UNCHANGED <<questions, responses, visibilityCache, requiredCache, disabledCache>>
       /\ UNCHANGED outside

-----------------------------------------------------------------------------
(* Question sets *)

\* The ids callers use; an id outside the constructed question set is unknown
\* to the engine.
AllIds == {"q1", "q5", "q6", "q7"}

TextOf(id) == IF id = "q1" THEN "Name" ELSE ""

Cond(questionId, operator, value, action) ==
    [questionId |-> questionId, operator |-> operator, value |-> value, action |-> action]

\* The questions array: question ids[i] carries, in order, the conditions
\* that the edge list attaches to it.
BuildQuestions(ids, requiredIds, edges) ==
    [i \in 1..Len(ids) |->
        LET own == SelectSeq(edges, LAMBDA e : e.q = ids[i])
        IN [id |-> ids[i], text |-> TextOf(ids[i]), required |-> ids[i] \in requiredIds,
            conditions |-> [k \in 1..Len(own) |-> own[k].c]]]

EdgeLists(pool, n) == UNION {[1..k -> pool] : k \in 0..n}

\* new ConditionalLogicEngine(questions, responses)
Constructed(qs, rs) ==
    /\ questions = qs
    /\ responses = rs
    /\ visibilityCache = EmptyMap
    /\ requiredCache = EmptyMap
    /\ disabledCache = EmptyMap
    /\ ret = NoReturn
    /\ callerQuestions = qs
    /\ callerResponses = rs
    /\ twin = [responses |-> rs, caches |-> EmptyCaches]

ShowIfTrue(ref) == Cond(ref, "equals", Bool(TRUE), "show")
ShowIfAnswered(ref) == Cond(ref, "is-not-empty", Undefined, "show")

Q(id, required, conditions) ==
    [id |-> id, text |-> TextOf(id), required |-> required, conditions |-> conditions]

\* Question sets over q1, q5, q6 (q7 stays unknown to the engine): without
\* questions, without conditions, a chain, a fork with several conditions
\* per question, a question reached along two paths, and reference cycles
\* of length one, two and three and a question leading into a cycle.
GraphQuestionSets ==
    { << >>,
      <<Q("q1", TRUE, << >>), Q("q5", FALSE, << >>), Q("q6", FALSE, << >>)>>,
      <<Q("q1", TRUE, << >>),
        Q("q5", FALSE, <<ShowIfTrue("q1")>>),
        Q("q6", FALSE, <<ShowIfAnswered("q5")>>)>>,
      <<Q("q1", TRUE, << >>),
        Q("q5", FALSE, <<ShowIfTrue("q1"), Cond("q1", "equals", Bool(TRUE), "require")>>),
        Q("q6", TRUE, <<Cond("q1", "equals", Bool(FALSE), "disable")>>)>>,
      <<Q("q1", TRUE, << >>),
        Q("q5", FALSE, <<ShowIfTrue("q1")>>),
        Q("q6", FALSE, <<Cond("q1", "equals", Bool(FALSE), "hide"),
                         Cond("q5", "equals", Bool(TRUE), "enable")>>)>>,
      <<Q("q1", TRUE, <<ShowIfTrue("q1")>>),
        Q("q5", FALSE, << >>),
        Q("q6", FALSE, << >>)>>,
      <<Q("q1", TRUE, <<ShowIfTrue("q5")>>),
        Q("q5", FALSE, <<ShowIfTrue("q1")>>),
        Q("q6", FALSE, << >>)>>,
      <<Q("q1", TRUE, <<ShowIfTrue("q6")>>),
        Q("q5", FALSE, <<ShowIfTrue("q1")>>),
        Q("q6", FALSE, <<ShowIfTrue("q5")>>)>>,
      <<Q("q1", TRUE, << >>),
        Q("q5", FALSE, <<ShowIfTrue("q1"), Cond("q6", "equals", Bool(TRUE), "hide")>>),
        Q("q6", FALSE, <<ShowIfTrue("q5")>>)>> }

\* The responses record handed to the constructor.
InitialResponses == {EmptyMap, [id \in {"q1"} |-> Bool(TRUE)]}

ResponseValues == {Bool(TRUE), Bool(FALSE)}

\* The ids updateResponse is called with.
UpdateIds == {"q1", "q5", "q6"}

Init == \E qs \in GraphQuestionSets, rs \in InitialResponses : Constructed(qs, rs)

Next ==
    \/ \E id \in AllIds : GetQuestionState(id)
    \/ GetVisibleQuestions
    \/ \E id \in AllIds : GetDependentQuestions(id)
    \/ \E id \in UpdateIds, r \in ResponseValues : UpdateResponse(id, r)
    \/ \E id \in AllIds : GetEvaluationPath(id)

Spec == Init /\ [][Next]_vars

-----------------------------------------------------------------------------
(* The dependency relation, stated independently of the walk *)

\* X has at least one condition whose questionId is Y.
DependsOn(x, y) ==
    /\ x \in KnownIds
    /\ \E j \in 1..Len(Question(x).conditions) : Question(x).conditions[j].questionId = y

RECURSIVE DependentsClosure(_)
DependentsClosure(found) ==
    LET more == found \cup {x \in KnownIds : \E y \in found : DependsOn(x, y)}
    IN IF more = found THEN found ELSE DependentsClosure(more)

\* Every question reachable from q by one or more steps of DependsOn.
TransitiveDependents(q) == DependentsClosure({x \in KnownIds : DependsOn(x, q)})

\* No question depends, directly or transitively, on itself.
Acyclic == \A x \in KnownIds : x \notin TransitiveDependents(x)

\* q lies on a reference cycle or leads into one.
ReachesCycle(q) == \E x \in {q} \cup TransitiveDependents(q) : x \in TransitiveDependents(x)

\* What getQuestionState(id) and getVisibleQuestions() would return when run
\* against the caches c, and what a freshly constructed engine with the same
\* questions and responses would return.
ResultWith(c, id) == QuestionStateCall(c, id).state
VisibleWith(c) ==
    VisibleLoop(1, [visible |-> {}, caches |-> c, evaluated |-> 0, warned |-> 0]).visible
QueryResult(id) == ResultWith(Caches, id)
FreshResult(id) == ResultWith(EmptyCaches, id)
AllCached == DOMAIN visibilityCache = KnownIds

-----------------------------------------------------------------------------
(* Claims checked under Spec *)

\* C1: on a question set without reference cycles, in every reachable state
\* getQuestionState(id) returns, for every id, the triple a freshly
\* constructed engine with the same questions and the current stored
\* responses returns; no cached triple is stale.
C1_CacheCoherence ==
    Acyclic =>
        /\ \A id \in AllIds : QueryResult(id) = FreshResult(id)
        /\ (ret.op = "getQuestionState" => ret.state = FreshResult(ret.arg))

\* A cache hit on q6 that returns a triple recomputed after q5 was answered.
C1_Witness ==
    /\ Acyclic
    /\ ret.op = "getQuestionState" /\ ret.arg = "q6" /\ ret.evaluated = 0
    /\ DependsOn("q6", "q5") /\ MapHas(responses, "q5")
    /\ ret.state.visible /\ MapHas(visibilityCache, "q5")

\* C2 (as stated): updateResponse(A, r) replaces only A's stored response
\* and removes from the three caches exactly the entries of A and of A's
\* transitive dependents, leaving every other entry and every other
\* question's getQuestionState result as it was.
C2_ExactInvalidation ==
    [][\A A \in UpdateIds, r \in ResponseValues :
        UpdateResponse(A, r) =>
            LET gone == {A} \cup TransitiveDependents(A)
            IN /\ responses' = MapSet(responses, A, r)
               /\ visibilityCache' = MapDeleteAll(visibilityCache, gone)
               /\ requiredCache' = MapDeleteAll(requiredCache, gone)
               /\ disabledCache' = MapDeleteAll(disabledCache, gone)
               /\ \A id \in AllIds \ gone : QueryResult(id)' = QueryResult(id)]_vars

\* C3: between two updateResponse calls every read leaves the triple that
\* getQuestionState(id) returns, and the set getVisibleQuestions() returns,
\* unchanged for every id, and a getQuestionState call returns the triple a
\* repeated call returns.
C3_ReadsIdempotent ==
    [][ret'.op # "updateResponse" =>
        /\ responses' = responses
        /\ \A id \in AllIds : ResultWith(Caches', id) = ResultWith(Caches, id)
        /\ VisibleWith(Caches') = VisibleWith(Caches)
        /\ \A id \in AllIds :
              (ret'.op = "getQuestionState" /\ ret'.arg = id) =>
                  ret'.state = ResultWith(Caches', id)]_vars

\* A repeated getQuestionState call (cache hit) on a hidden question.
C3_Witness ==
    /\ ret.op = "getQuestionState" /\ ret.arg \in KnownIds
    /\ ret.evaluated = 0 /\ ~ret.state.visible

\* C4: getVisibleQuestions() returns exactly the known ids whose
\* getQuestionState is visible (every question without conditions among
\* them, nothing for an engine without questions) and leaves every known
\* question cached; reads keep them cached, and a further call then
\* evaluates no condition and returns the same set.
C4_VisibleQuestions ==
    [][/\ (ret'.op = "getVisibleQuestions" =>
              /\ responses' = responses
              /\ ret'.ids = {id \in KnownIds : ResultWith(Caches', id).visible}
              /\ DOMAIN visibilityCache' = KnownIds
              /\ \A id \in KnownIds : Question(id).conditions = << >> => id \in ret'.ids
              /\ (KnownIds = {} => ret'.ids = {}))
       /\ (ret'.op # "updateResponse" /\ AllCached => DOMAIN visibilityCache' = KnownIds)
       /\ (GetVisibleQuestions /\ AllCached =>
              ret'.evaluated = 0 /\ ret'.ids = VisibleWith(Caches))]_vars

\* A second getVisibleQuestions() that evaluated nothing and returned some
\* but not all of the questions.
C4_Witness ==
    /\ ret.op = "getVisibleQuestions" /\ ret.evaluated = 0
    /\ ret.ids # {} /\ ret.ids # KnownIds

\* C5 (as stated): for a question Q whose only condition is a `show`
\* condition on R, getVisibleQuestions() contains Q exactly when the stored
\* response of R meets the condition.
C5_VisibilityTracksAnswer ==
    ret.op = "getVisibleQuestions" =>
        \A id \in KnownIds :
            LET conditions == Question(id).conditions
            IN (Len(conditions) = 1 /\ conditions[1].action = "show") =>
                  (id \in ret.ids <=>
                      evaluateCondition(conditions[1], ResponseValue(conditions[1].questionId)))

\* C10 (as stated): on a question set with reference cycles,
\* updateResponse(A, r) for A on or leading into a cycle does not raise and
\* leaves no cache entry for A or any of its dependents.
C10_UpdateOnCycle ==
    (ret.op = "updateResponse" /\ ReachesCycle(ret.arg)) =>
        /\ ~ret.raised
        /\ \A id \in {ret.arg} \cup TransitiveDependents(ret.arg) :
              ~MapHas(visibilityCache, id) /\ ~MapHas(requiredCache, id)
                  /\ ~MapHas(disabledCache, id)

\* The triple that the MET / NOT MET flags of a path imply for question id.
PathState(id, path) ==
    LET conditions == Question(id).conditions
        met(i) == path[i].met = "MET"
        idx == 1..Len(conditions)
    IN [visible |-> /\ \A i \in idx : conditions[i].action = "show" => met(i)
                    /\ \A i \in idx : conditions[i].action = "hide" => ~met(i),
        required |-> \/ Question(id).required
                     \/ \E i \in idx : conditions[i].action = "require" /\ met(i),
        disabled |-> \/ \E i \in idx : conditions[i].action = "disable" /\ met(i)
                     \/ \E i \in idx : conditions[i].action = "enable" /\ ~met(i)]

\* getEvaluationPath(id) lists id's conditions in declaration order, each
\* flagged with the outcome of evaluating it under the stored responses.
PathFollowsConditions(id, path) ==
    LET conditions == IF id \in KnownIds THEN Question(id).conditions ELSE << >>
    IN /\ Len(path) = Len(conditions)
       /\ \A i \in 1..Len(conditions) :
            /\ path[i].operator = conditions[i].operator
            /\ path[i].action = conditions[i].action
            /\ path[i].value = ValueText(conditions[i].value)
            /\ path[i].met \in {"MET", "NOT MET"}
            /\ path[i].met = "MET" <=>
                  evaluateCondition(conditions[i], ResponseValue(conditions[i].questionId))

\* C24 (as stated): getEvaluationPath(id) returns one entry per condition of
\* id in declaration order, flagged with the outcome a fresh fold computes
\* under the current responses, and so agrees with the state
\* getQuestionState(id) returns in every reachable state; it returns the
\* empty list for an unknown id or a question without conditions and
\* changes neither caches nor responses.
C24_EvaluationPath ==
    [][ret'.op = "getEvaluationPath" =>
        /\ responses' = responses
        /\ Caches' = Caches
        /\ \A id \in AllIds :
              ret'.arg = id =>
                 /\ PathFollowsConditions(id, ret'.path)
                 /\ id \in KnownIds => PathState(id, ret'.path) = ResultWith(Caches, id)]_vars

\* The cached triple of id in the caches c.
Entry(c, id) == [visible |-> c.v[id], required |-> c.r[id], disabled |-> c.d[id]]

C27_CachesWellFormed ==
    /\ DOMAIN visibilityCache = DOMAIN requiredCache
    /\ DOMAIN requiredCache = DOMAIN disabledCache
    /\ DOMAIN visibilityCache \subseteq KnownIds
    /\ \A id \in DOMAIN visibilityCache :
          /\ visibilityCache[id] \in BOOLEAN
          /\ requiredCache[id] \in BOOLEAN
          /\ disabledCache[id] \in BOOLEAN
    /\ ret.op = "getQuestionState" =>
          /\ ret.state.visible \in BOOLEAN
          /\ ret.state.required \in BOOLEAN
          /\ ret.state.disabled \in BOOLEAN

\* A cache hit on q6, declared required and carrying a condition, while
\* the entries of another question have been removed by an update.
C27_Witness ==
    /\ ret.op = "getQuestionState" /\ ret.arg = "q6" /\ ret.evaluated = 0
    /\ "q6" \in KnownIds /\ Question("q6").conditions # << >>
    /\ ret.state.required = TRUE
    /\ MapHas(responses, "q5") /\ ~MapHas(visibilityCache, "q5")

\* C29 (as stated): for every question X without a condition on A,
\* getQuestionState(X) returns the same triple before and after
\* updateResponse(A, r), for every r; A itself (unless it references
\* itself) and the questions that depend on A only transitively are among
\* those X.
C29_OnlyDirectDependents ==
    [][\A A \in UpdateIds, r \in ResponseValues :
        UpdateResponse(A, r) =>
            \A X \in KnownIds :
                ~DependsOn(X, A) => QueryResult(X)' = QueryResult(X)]_vars

\* C30 (as stated): an updateResponse(A, r) that does not complete
\* normally leaves the stored responses and the three caches exactly as
\* they were, so that no question with a condition on A keeps a cached
\* triple next to A's new response.
C30_UpdateAllOrNothing ==
    [][(ret'.op = "updateResponse" /\ ret'.raised) =>
        /\ responses' = responses
        /\ Caches' = Caches]_vars

-----------------------------------------------------------------------------
(* The dependency walk over every small question set *)

\* Four questions and every way of attaching at most MaxDepEdges conditions
\* among them: chains (q1, q5, q6, q7), forks, questions reached along
\* several paths or through several conditions, self references and cycles.
DepIds == <<"q1", "q5", "q6", "q7">>
DepEdges ==
    {[q |-> DepIds[i], c |-> ShowIfAnswered(DepIds[j])] :
        i \in 1..Len(DepIds), j \in 1..Len(DepIds)}
DepQuestionSets ==
    {BuildQuestions(DepIds, {"q1"}, e) : e \in EdgeLists(DepEdges, MaxDepEdges)}

InitDeps == \E qs \in DepQuestionSets : Constructed(qs, EmptyMap)

NextDeps == \E id \in AllIds : GetDependentQuestions(id)

SpecDeps == InitDeps /\ [][NextDeps]_vars

\* C8 (as stated): for every question set, cyclic ones included,
\* getDependentQuestions(q) terminates (returns instead of exhausting the
\* stack) and its result does not contain q.
C8_CycleTermination ==
    ret.op = "getDependentQuestions" => (~ret.raised /\ ret.arg \notin ret.ids)

\* C9: on a question set without reference cycles getDependentQuestions(q)
\* returns exactly the questions reachable from q by one or more DependsOn
\* steps.
C9_DependencyClosure ==
    (Acyclic /\ ret.op = "getDependentQuestions") =>
        (~ret.raised /\ ret.ids = TransitiveDependents(ret.arg))

\* The chain q1, q5, q6, q7: getDependentQuestions("q1") = {q5, q6, q7}.
C9_Witness ==
    /\ Acyclic
    /\ ret.op = "getDependentQuestions" /\ ret.arg = "q1"
    /\ DependsOn("q5", "q1") /\ DependsOn("q6", "q5") /\ DependsOn("q7", "q6")
    /\ ~DependsOn("q6", "q1") /\ ~DependsOn("q7", "q1") /\ ~DependsOn("q7", "q5")
    /\ ret.ids = {"q5", "q6", "q7"}

-----------------------------------------------------------------------------
(* The fold over two conditions *)

\* q6 carries two conditions, the first on q1 and the second on q5, with
\* every pair of actions; each condition is one that an absent response
\* meets (is-empty) or one that it does not (equals true).
FoldTarget == "q6"
FoldPool(ref) ==
    {Cond(ref, "equals", Bool(TRUE), a) : a \in Actions}
        \cup {Cond(ref, "is-empty", Undefined, a) : a \in Actions}
FoldQuestionSets ==
    {<<Q("q1", TRUE, << >>), Q("q5", FALSE, << >>), Q(FoldTarget, req, <<c1, c2>>)>> :
        c1 \in FoldPool("q1"), c2 \in FoldPool("q5"), req \in BOOLEAN}

InitFold == \E qs \in FoldQuestionSets : Constructed(qs, EmptyMap)

NextFold ==
    \/ \E id \in {"q1", "q5"}, r \in ResponseValues : UpdateResponse(id, r)
    \/ GetQuestionState(FoldTarget)
    \/ GetVisibleQuestions

SpecFold == InitFold /\ [][NextFold]_vars

FirstCondition == Question(FoldTarget).conditions[1]
SecondCondition == Question(FoldTarget).conditions[2]
FirstMet == evaluateCondition(FirstCondition, ResponseValue(FirstCondition.questionId))
SecondMet == evaluateCondition(SecondCondition, ResponseValue(SecondCondition.questionId))

\* getQuestionState(q6) has just folded q6's two conditions (cache miss).
FoldReturned ==
    /\ ret.op = "getQuestionState" /\ ret.arg = FoldTarget /\ ret.evaluated = 2

\* C6 (as stated): with two conditions of the same action on different
\* questions, the derived field is the one the later condition alone
\* produces.
C6_LaterConditionWins ==
    (FoldReturned /\ FirstCondition.action = SecondCondition.action) =>
        LET alone == ApplyCondition(
                        [visible |-> TRUE, required |-> Question(FoldTarget).required,
                         disabled |-> FALSE],
                        SecondCondition)
        IN CASE SecondCondition.action \in {"show", "hide"} ->
                    ret.state.visible = alone.visible
             [] SecondCondition.action = "require" ->
                    ret.state.required = alone.required
             [] OTHER -> ret.state.disabled = alone.disabled

\* C6 (amended): the derived field combines both conditions: visible iff
\* both `show` conditions are met (neither `hide` condition is met),
\* required iff declared required or either `require` condition is met,
\* disabled iff either `disable` condition is met (either `enable`
\* condition is not met).
C6_BothConditionsCount ==
    (FoldReturned /\ FirstCondition.action = SecondCondition.action) =>
        CASE SecondCondition.action = "show" ->
                ret.state.visible = (FirstMet /\ SecondMet)
          [] SecondCondition.action = "hide" ->
                ret.state.visible = (~FirstMet /\ ~SecondMet)
          [] SecondCondition.action = "require" ->
                ret.state.required =
                    (Question(FoldTarget).required \/ FirstMet \/ SecondMet)
          [] SecondCondition.action = "disable" ->
                ret.state.disabled = (FirstMet \/ SecondMet)
          [] OTHER -> ret.state.disabled = (~FirstMet \/ ~SecondMet)

\* A `show` condition that is not met followed by a `show` condition that
\* is met: getQuestionState returned visible = false.
C6_Witness ==
    /\ FoldReturned
    /\ FirstCondition.action = "show" /\ SecondCondition.action = "show"
    /\ ~FirstMet /\ SecondMet
    /\ ~ret.state.visible

ShowThenHideBothUnmet ==
    /\ FoldReturned
    /\ FirstCondition.action = "show" /\ SecondCondition.action = "hide"
    /\ ~FirstMet /\ ~SecondMet

\* C7 (as stated): a `show` condition that is not met followed by a `hide`
\* condition that is not met gives visible = true.
C7_ShowThenHideVisible == ShowThenHideBothUnmet => ret.state.visible

\* C7 (amended): it gives visible = false; the `hide` condition that is
\* not met does not restore what the `show` condition turned off.
C7_ShowThenHideHidden == ShowThenHideBothUnmet => ~ret.state.visible

C7_Witness == ShowThenHideBothUnmet /\ MapGet(visibilityCache, FoldTarget) = FALSE

-----------------------------------------------------------------------------
(* Ids the engine does not know *)

\* q1 and q5 are questions, q7 is not; q5's condition references q7, and a
\* response can be stored under q7 by the constructor or by updateResponse.
UnknownId == "q7"
UnknownQuestionSets ==
    {<<Q("q1", TRUE, << >>), Q("q5", FALSE, <<c>>)>> :
        c \in {Cond(UnknownId, "equals", Bool(TRUE), "show"),
               Cond(UnknownId, "is-empty", Undefined, "show"),
               Cond(UnknownId, "not-equals", Bool(TRUE), "require"),
               Cond(UnknownId, "is-not-empty", Undefined, "disable")}}

InitUnknown ==
    \E qs \in UnknownQuestionSets, rs \in {EmptyMap, [id \in {UnknownId} |-> Bool(TRUE)]} :
        Constructed(qs, rs)

NextUnknown ==
    \/ \E id \in {"q1", "q5", UnknownId} : GetQuestionState(id)
    \/ GetVisibleQuestions
    \/ GetDependentQuestions(UnknownId)
    \/ \E id \in {"q1", UnknownId}, r \in ResponseValues : UpdateResponse(id, r)
    \/ \E id \in {"q5", UnknownId} : GetEvaluationPath(id)

SpecUnknown == InitUnknown /\ [][NextUnknown]_vars

MetText(met) == IF met THEN "MET" ELSE "NOT MET"

\* C11: getQuestionState(id) for an id outside the question set returns
\* {visible: true, required: false, disabled: false}, does not raise and no
\* cache ever holds an entry for such an id, also when a response is stored
\* under it.
C11_UnknownIdDefault ==
    /\ (ret.op = "getQuestionState" /\ ret.arg \notin KnownIds) =>
          (ret.state = DefaultState /\ ~ret.raised /\ ret.evaluated = 0)
    /\ \A id \in AllIds \ KnownIds :
          ~MapHas(visibilityCache, id) /\ ~MapHas(requiredCache, id)
              /\ ~MapHas(disabledCache, id)

\* getQuestionState("q7") returned while a response is stored under q7.
C11_Witness ==
    /\ ret.op = "getQuestionState" /\ ret.arg = UnknownId
    /\ UnknownId \notin KnownIds /\ MapHas(responses, UnknownId)

\* C12 (as stated): a condition whose questionId names no question is
\* evaluated against undefined, whatever responses are stored.
C12_MissingReferenceIsAbsent ==
    /\ ret.op = "getEvaluationPath" =>
          \A i \in 1..Len(ret.path) :
              LET c == Question(ret.arg).conditions[i]
              IN c.questionId \notin KnownIds =>
                    ret.path[i].met = MetText(evaluateCondition(c, Undefined))
    /\ (ret.op = "getQuestionState" /\ ret.evaluated = 1) =>
          LET c == Question(ret.arg).conditions[1]
          IN (c.questionId \notin KnownIds /\ c.action = "show") =>
                ret.state.visible = evaluateCondition(c, Undefined)

-----------------------------------------------------------------------------
(* The operators, one condition at a time *)

\* q5 carries one `show` condition on q1, with every operator (and one the
\* evaluator does not know) and every operand below; q1 is answered with
\* every value below.
EvalTarget == "q5"
EvalSource == "q1"
UnknownOperator == "matches"
EvalOperators == Operators \cup {UnknownOperator}
EvalOperands ==
    {Undefined, Str(<<"a">>), Str(<<"1">>), Str(<< >>), Num(1), Num(65), Bool(TRUE),
     Arr(<< >>), Arr(<<Str(<<"a">>)>>), Arr(<<Num(1), Num(65)>>)}
EvalValues ==
    {Undefined, Null, Str(<< >>), Str(<<" ", "\t">>), Str(<<"a">>), Str(<<"b", "a">>),
     Str(<<"1">>), Num(0), Num(1), Num(64), Num(65), Num(66), Bool(TRUE), Bool(FALSE),
     Arr(<< >>), Arr(<<Str(<<"a">>)>>), Arr(<<Str(<<"b">>), Str(<<"a">>)>>), Arr(<<Num(1)>>)}
EvalQuestionSets ==
    {<<Q(EvalSource, TRUE, << >>), Q(EvalTarget, FALSE, <<Cond(EvalSource, op, cv, "show")>>)>> :
        op \in EvalOperators, cv \in EvalOperands}

InitEval == \E qs \in EvalQuestionSets : Constructed(qs, EmptyMap)

NextEval ==
    \/ \E r \in EvalValues : UpdateResponse(EvalSource, r)
    \/ GetQuestionState(EvalTarget)
    \/ GetVisibleQuestions
    \/ GetEvaluationPath(EvalTarget)

SpecEval == InitEval /\ [][NextEval]_vars

EvalCondition == Question(EvalTarget).conditions[1]
EvalOperator == EvalCondition.operator
EvalOperand == EvalCondition.value
EvalValue == ResponseValue(EvalSource)

\* The last call reported the outcome of q5's condition: getEvaluationPath
\* by its MET flag, getQuestionState and getVisibleQuestions by q5's
\* visibility.
EvalReturned == ret.op \in {"getEvaluationPath", "getQuestionState", "getVisibleQuestions"}
ObservedMet ==
    CASE ret.op = "getEvaluationPath" -> ret.path[1].met = "MET"
      [] ret.op = "getQuestionState" -> ret.state.visible
      [] OTHER -> EvalTarget \in ret.ids

\* C14: a condition whose operator is none of the twelve is not met for
\* every referenced value, each evaluation of it logs one warning, and
\* getQuestionState, getVisibleQuestions and getEvaluationPath return
\* without raising.
C14_UnknownOperator ==
    (EvalReturned /\ EvalOperator \notin Operators) =>
        /\ ~ObservedMet
        /\ ~ret.raised
        /\ ret.warned = ret.evaluated
        /\ (ret.op = "getEvaluationPath" => ret.warned = 1)

\* getEvaluationPath evaluated the unknown operator against a stored answer.
C14_Witness ==
    /\ ret.op = "getEvaluationPath" /\ EvalOperator = UnknownOperator
    /\ MapHas(responses, EvalSource) /\ ret.warned = 1 /\ ret.path[1].met = "NOT MET"

NumericOperators ==
    {"greater-than", "less-than", "greater-than-or-equal", "less-than-or-equal"}

\* C15: a relational operator is met iff referenced value and operand are
\* both numbers and the relation holds; any other type on either side is
\* not met and nothing raises.  >= 65 is not met for 64 and met for 65,
\* > 65 is not met for 65.
C15_NumericOperators ==
    (EvalReturned /\ EvalOperator \in NumericOperators) =>
        /\ ~ret.raised
        /\ ObservedMet <=>
              /\ EvalValue.t = "number" /\ EvalOperand.t = "number"
              /\ \/ EvalOperator = "greater-than" /\ EvalOperand.v < EvalValue.v
                 \/ EvalOperator = "less-than" /\ EvalOperand.v > EvalValue.v
                 \/ EvalOperator = "greater-than-or-equal" /\ ~(EvalValue.v < EvalOperand.v)
                 \/ EvalOperator = "less-than-or-equal" /\ ~(EvalValue.v > EvalOperand.v)
        /\ (EvalOperand = Num(65) /\ EvalValue = Num(64)
                /\ EvalOperator = "greater-than-or-equal") => ~ObservedMet
        /\ (EvalOperand = Num(65) /\ EvalValue = Num(65)) =>
              (ObservedMet <=> EvalOperator \in {"greater-than-or-equal", "less-than-or-equal"})

\* greater-than-or-equal 65 reported met for the answer 65.
C15_Witness ==
    /\ ret.op = "getQuestionState" /\ ret.evaluated = 1
    /\ EvalOperator = "greater-than-or-equal"
    /\ EvalOperand = Num(65) /\ EvalValue = Num(65) /\ ret.state.visible

\* needle occurs in s as a contiguous run
IsSubstring(needle, s) ==
    \E k \in 0..Len(s) :
        /\ k + Len(needle) <= Len(s)
        /\ \A m \in 1..Len(needle) : s[k + m] = needle[m]

IsMember(x, a) == \E i \in 1..Len(a) : a[i] = x

ExpectedContains ==
    \/ EvalValue.t = "string" /\ EvalOperand.t = "string"
          /\ IsSubstring(EvalOperand.v, EvalValue.v)
    \/ EvalValue.t = "array" /\ IsMember(EvalOperand, EvalValue.v)

\* C16: contains is the substring test for two strings, membership of the
\* operand for a referenced sequence, and not met otherwise; not-contains
\* is met exactly when contains is not.
C16_Contains ==
    /\ (EvalReturned /\ EvalOperator = "contains") => (ObservedMet <=> ExpectedContains)
    /\ (EvalReturned /\ EvalOperator = "not-contains") => (ObservedMet <=> ~ExpectedContains)

\* contains "a" reported met for the answer "ba".
C16_Witness ==
    /\ ret.op = "getEvaluationPath" /\ EvalOperator = "contains"
    /\ EvalOperand = Str(<<"a">>) /\ EvalValue = Str(<<"b", "a">>)
    /\ ret.path[1].met = "MET"

\* C17: with a sequence operand `in` is met iff the referenced value is a
\* member and `not-in` iff it is not; with any other operand neither is met.
C17_InNotIn ==
    /\ (EvalReturned /\ EvalOperator = "in") =>
          (ObservedMet <=> (EvalOperand.t = "array" /\ IsMember(EvalValue, EvalOperand.v)))
    /\ (EvalReturned /\ EvalOperator = "not-in") =>
          (ObservedMet <=> (EvalOperand.t = "array" /\ ~IsMember(EvalValue, EvalOperand.v)))

\* not-in with a sequence operand reported met while q1 has no response.
C17_Witness ==
    /\ ret.op = "getEvaluationPath" /\ EvalOperator = "not-in"
    /\ EvalOperand = Arr(<<Num(1), Num(65)>>) /\ ~MapHas(responses, EvalSource)
    /\ ret.path[1].met = "MET"

\* s with leading and trailing whitespace removed
RECURSIVE Trim(_)
Trim(s) ==
    IF s = << >> THEN s
    ELSE IF Head(s) \in WhiteSpace THEN Trim(Tail(s))
    ELSE IF s[Len(s)] \in WhiteSpace THEN Trim(SubSeq(s, 1, Len(s) - 1))
    ELSE s

ExpectedEmpty ==
    \/ EvalValue.t \in {"undefined", "null"}
    \/ EvalValue.t = "string" /\ Trim(EvalValue.v) = << >>
    \/ EvalValue.t = "array" /\ EvalValue.v = << >>

\* C18: is-empty is met exactly for an absent, undefined or null value, a
\* string that is empty once trimmed and an empty sequence, hence for no
\* number or boolean; is-not-empty is met exactly when is-empty is not.
C18_IsEmpty ==
    /\ (EvalReturned /\ EvalOperator = "is-empty") =>
          /\ ObservedMet <=> ExpectedEmpty
          /\ EvalValue.t \in {"number", "boolean"} => ~ObservedMet
    /\ (EvalReturned /\ EvalOperator = "is-not-empty") => (ObservedMet <=> ~ExpectedEmpty)

\* is-empty reported met for an answer of whitespace only.
C18_Witness ==
    /\ ret.op = "getQuestionState" /\ ret.evaluated = 1 /\ EvalOperator = "is-empty"
    /\ EvalValue = Str(<<" ", "\t">>) /\ ret.state.visible

\* C19 (as stated): equals is met iff referenced value and operand are the
\* same value of the same type, and not-equals is met exactly when equals
\* is not.
C19_Equals ==
    /\ (EvalReturned /\ EvalOperator = "equals") => (ObservedMet <=> EvalValue = EvalOperand)
    /\ (EvalReturned /\ EvalOperator = "not-equals") => (ObservedMet <=> EvalValue # EvalOperand)

-----------------------------------------------------------------------------
(* One question, one or two conditions, every action *)

\* q5, required or not, carries one condition drawn from WellFormedPool or
\* AnomalousPool, or two drawn from AnomalousPool; q7 is not a question of
\* the engine.
SingleTarget == "q5"
SingleSource == "q1"
MissingId == "q7"

WellFormedPool ==
    {Cond(SingleSource, "equals", Bool(TRUE), a) : a \in Actions}
        \cup {Cond(SingleSource, "is-empty", Undefined, a) : a \in Actions}

\* an unknown operator, a relational operator with a string operand, `in`
\* with an operand that is no sequence and on a question that does not
\* exist, and a well-formed test of a question that does not exist
AnomalousPool ==
    {Cond(SingleSource, UnknownOperator, Bool(TRUE), a) : a \in Actions}
        \cup {Cond(SingleSource, "greater-than", Str(<<"1">>), a) : a \in Actions}
        \cup {Cond(MissingId, "in", Bool(TRUE), a) : a \in Actions}
        \cup {Cond(MissingId, "not-equals", Bool(TRUE), a) : a \in {"hide", "require"}}

SingleConditionLists ==
    {<<c>> : c \in WellFormedPool \cup AnomalousPool}
        \cup {<<c, d>> : c \in AnomalousPool, d \in AnomalousPool}

SingleQuestionSets ==
    {<<Q(SingleSource, TRUE, << >>), Q(SingleTarget, required, conditions)>> :
        required \in BOOLEAN, conditions \in SingleConditionLists}

InitSingle == \E qs \in SingleQuestionSets : Constructed(qs, EmptyMap)

NextSingle ==
    \/ \E id \in {SingleSource, MissingId}, r \in ResponseValues : UpdateResponse(id, r)
    \/ GetQuestionState(SingleTarget)

SpecSingle == InitSingle /\ [][NextSingle]_vars

SingleConditions == Question(SingleTarget).conditions
SingleReturned == ret.op = "getQuestionState" /\ ret.arg = SingleTarget

\* The three kinds of anomaly, read off the condition alone.
HasUnknownOperator(c) == c.operator \notin Operators
RefersToMissing(c) == c.questionId \notin KnownIds
HasMismatchedOperand(c) ==
    \/ c.operator \in NumericOperators /\ c.value.t # "number"
    \/ c.operator \in {"in", "not-in"} /\ c.value.t # "array"
IsAnomalous(c) == HasUnknownOperator(c) \/ RefersToMissing(c) \/ HasMismatchedOperand(c)
AllAnomalous ==
    /\ ~Question(SingleTarget).required
    /\ \A i \in 1..Len(SingleConditions) : IsAnomalous(SingleConditions[i])
SingleActions == {SingleConditions[i].action : i \in 1..Len(SingleConditions)}

\* C13 (as stated): a question declared not required whose conditions are
\* all anomalous gets {visible: true, required: false, disabled: false}
\* from getQuestionState, whatever actions the conditions carry.
C13_AnomaliesDefault == (SingleReturned /\ AllAnomalous) => ret.state = DefaultState

\* C13 (amended): a question declared not required whose conditions each
\* have an unknown operator or a mismatched operand is evaluated without
\* raising, every such condition counting as not met: required is false,
\* visible is true iff no condition carries `show`, and disabled is true
\* iff some condition carries `enable`.
C13_AnomaliesNotMet ==
    (/\ SingleReturned
     /\ ~Question(SingleTarget).required
     /\ \A i \in 1..Len(SingleConditions) :
            HasUnknownOperator(SingleConditions[i]) \/ HasMismatchedOperand(SingleConditions[i]))
        => /\ ~ret.raised
           /\ ~ret.state.required
           /\ ret.state.visible <=> "show" \notin SingleActions
           /\ ret.state.disabled <=> "enable" \in SingleActions

\* getQuestionState folded an unknown-operator `show` and a mismatched
\* `enable` into a hidden, disabled state.
C13_Witness ==
    /\ SingleReturned /\ ret.evaluated = 2
    /\ ~Question(SingleTarget).required
    /\ HasUnknownOperator(SingleConditions[1]) /\ SingleConditions[1].action = "show"
    /\ HasMismatchedOperand(SingleConditions[2]) /\ SingleConditions[2].action = "enable"
    /\ ret.state = [visible |-> FALSE, required |-> FALSE, disabled |-> TRUE]

SingleMet ==
    evaluateCondition(SingleConditions[1], ResponseValue(SingleConditions[1].questionId))

\* C20: for a question with exactly one condition, under `show` visible is
\* true iff the condition is met and under `hide` iff it is not met; in
\* both cases required is the declared flag and disabled is false.
C20_ShowHide ==
    (/\ SingleReturned /\ Len(SingleConditions) = 1
     /\ SingleConditions[1].action \in {"show", "hide"})
        => /\ SingleConditions[1].action = "show" => (ret.state.visible <=> SingleMet)
           /\ SingleConditions[1].action = "hide" => (ret.state.visible <=> ~SingleMet)
           /\ ret.state.required = Question(SingleTarget).required
           /\ ~ret.state.disabled
           /\ SingleConditions[1] = Cond(SingleSource, "equals", Bool(TRUE), "hide") =>
                 (ret.state.visible <=>
                     ~(MapHas(responses, SingleSource) /\ responses[SingleSource] = Bool(TRUE)))

\* A required question was hidden by its single met `hide` condition.
C20_Witness ==
    /\ SingleReturned /\ ret.evaluated = 1
    /\ SingleConditions = <<Cond(SingleSource, "equals", Bool(TRUE), "hide")>>
    /\ Question(SingleTarget).required
    /\ ResponseValue(SingleSource) = Bool(TRUE)
    /\ ret.state = [visible |-> FALSE, required |-> TRUE, disabled |-> FALSE]

\* The i-th condition of q5 is met under the stored responses.
SingleMetAt(i) ==
    evaluateCondition(SingleConditions[i], ResponseValue(SingleConditions[i].questionId))
SingleIndices == 1..Len(SingleConditions)

-----------------------------------------------------------------------------
(* The chain q1, q5, q6, q7 *)

\* The nested-dependency questions: q5 shows once q1 is "t", q6 once q5 is
\* answered, q7 once q6 is answered; and a second chain with other actions
\* and a question that references two others.
ChainQuestionSets ==
    { <<Q("q1", TRUE, << >>),
        Q("q5", FALSE, <<Cond("q1", "equals", Str(<<"t">>), "show")>>),
        Q("q6", FALSE, <<ShowIfAnswered("q5")>>),
        Q("q7", FALSE, <<ShowIfAnswered("q6")>>)>>,
      <<Q("q1", TRUE, << >>),
        Q("q5", FALSE, <<Cond("q1", "equals", Str(<<"t">>), "hide")>>),
        Q("q6", FALSE, <<Cond("q5", "is-not-empty", Undefined, "enable"),
                         Cond("q1", "is-empty", Undefined, "require")>>),
        Q("q7", TRUE, <<Cond("q6", "is-empty", Undefined, "disable"),
                        ShowIfAnswered("q6")>>)>> }

ChainValues == {Str(<<"t">>), Str(<<"v">>), Str(<< >>)}

InitChain == \E qs \in ChainQuestionSets : Constructed(qs, EmptyMap)

NextChain ==
    \/ \E id \in {"q1", "q5", "q6"}, r \in ChainValues : UpdateResponse(id, r)
    \/ \E id \in AllIds : GetQuestionState(id)
    \/ GetVisibleQuestions

SpecChain == InitChain /\ [][NextChain]_vars

\* What getQuestionState(id) may depend on according to C26: the question's
\* definition and the stored responses of the questions its conditions name.
DirectView(id) ==
    LET question == Question(id)
        refs == {question.conditions[i].questionId : i \in 1..Len(question.conditions)}
    IN [question |-> question,
        answers |-> [r \in refs |-> IF r \in DOMAIN responses THEN responses[r] ELSE Undefined]]

\* The derived triple as a function of such a view alone.
StateOfView(view) ==
    LET conditions == view.question.conditions
        idx == 1..Len(conditions)
        met(i) == evaluateCondition(conditions[i], view.answers[conditions[i].questionId])
    IN [visible |-> /\ \A i \in idx : conditions[i].action = "show" => met(i)
                    /\ \A i \in idx : conditions[i].action = "hide" => ~met(i),
        required |-> \/ view.question.required
                     \/ \E i \in idx : conditions[i].action = "require" /\ met(i),
        disabled |-> \/ \E i \in idx : conditions[i].action = "disable" /\ met(i)
                     \/ \E i \in idx : conditions[i].action = "enable" /\ ~met(i)]

NonEmptyStored(id) ==
    /\ id \in DOMAIN responses
    /\ responses[id].t = "string"
    /\ \E k \in 1..Len(responses[id].v) : responses[id].v[k] \notin WhiteSpace

\* C26: the triple getQuestionState returns for a question is determined by
\* the question's definition and the stored responses of the questions its
\* conditions reference; whether a referenced question is itself visible
\* plays no part: in the chain q1, q5, q6, q7, q6 is visible iff q5 has a
\* non-empty stored response.
C26_DirectResponsesOnly ==
    /\ \A id \in KnownIds :
          (ret.op = "getQuestionState" /\ ret.arg = id) =>
              ret.state = StateOfView(DirectView(id))
    /\ ret.op = "getVisibleQuestions" =>
          ret.ids = {id \in KnownIds : StateOfView(DirectView(id)).visible}
    /\ (/\ ret.op = "getQuestionState" /\ ret.arg = "q6"
        /\ Question("q6").conditions = <<ShowIfAnswered("q5")>>)
          => (ret.state.visible <=> NonEmptyStored("q5"))

\* q5 is cached as hidden (q1 is not "t"), holds a stored answer, and q6 has
\* just been computed as visible.
C26_Witness ==
    /\ ret.op = "getQuestionState" /\ ret.arg = "q6" /\ ret.evaluated = 1
    /\ Question("q6").conditions = <<ShowIfAnswered("q5")>>
    /\ MapHas(visibilityCache, "q5") /\ ~visibilityCache["q5"]
    /\ NonEmptyStored("q5")
    /\ ret.state.visible

-----------------------------------------------------------------------------
(* The fold does not depend on the order of the conditions *)

FoldInitial ==
    [visible |-> TRUE, required |-> Question(FoldTarget).required, disabled |-> FALSE]

\* C28: getQuestionState returns visible = every `show` condition met and
\* no `hide` condition met, required = declared required or some `require`
\* condition met, disabled = some `disable` condition met or some `enable`
\* condition not met; the conditions in the opposite order give the same
\* triple, and what the first condition turned off (visible) or on
\* (disabled) the second does not restore.
C28_OrderIndependent ==
    FoldReturned =>
        /\ ret.state = StateOfView(DirectView(FoldTarget))
        /\ ret.state = FoldConditions(<<SecondCondition, FirstCondition>>, 1, FoldInitial)
        /\ ~ApplyCondition(FoldInitial, FirstCondition).visible => ~ret.state.visible
        /\ ApplyCondition(FoldInitial, FirstCondition).disabled => ret.state.disabled

\* An `enable` condition that is not met followed by a `disable` condition
\* that is not met: disabled stays true.
C28_Witness ==
    /\ FoldReturned
    /\ FirstCondition.action = "enable" /\ SecondCondition.action = "disable"
    /\ ~FirstMet /\ ~SecondMet
    /\ ret.state.disabled /\ ret.state.visible

-----------------------------------------------------------------------------
(* The caller's collections and a second engine *)

\* The constructor copies the entries of the questions array and of the
\* responses record into Maps of its own; the caller goes on to push, pop
\* and replace entries of its array and to set and delete keys of its
\* record, as the tests do between two constructions.  A second engine is
\* built from the same arguments; the model's engine variables hold the
\* fields of the engine the caller is addressing, `twin` those of the other.
SnapshotQuestionSets ==
    { <<Q("q1", TRUE, << >>), Q("q5", FALSE, <<ShowIfTrue("q1")>>)>>,
      <<Q("q1", TRUE, << >>), Q("q5", FALSE, <<ShowIfTrue("q1")>>),
        Q("q6", FALSE, <<ShowIfAnswered("q5")>>)>> }

\* What the caller pushes, and what it puts in place of an entry.
PushedQuestions == {Q("q7", FALSE, <<ShowIfTrue("q1")>>)}
ReplacingQuestions == {Q("q5", FALSE, << >>)}

InitSnapshot ==
    \E qs \in SnapshotQuestionSets, rs \in InitialResponses : Constructed(qs, rs)

\* questions.push(q)
CallerPush(q) ==
    /\ Len(callerQuestions) < MaxCallerQuestions
    /\ callerQuestions' = Append(callerQuestions, q)
    /\ UNCHANGED <<questions, responses, visibilityCache, requiredCache, disabledCache,
                   ret, callerResponses, twin>>

\* questions.pop()
CallerPop ==
    /\ callerQuestions # << >>
    /\ callerQuestions' = SubSeq(callerQuestions, 1, Len(callerQuestions) - 1)
    /\ UNCHANGED <<questions, responses, visibilityCache, requiredCache, disabledCache,
                   ret, callerResponses, twin>>

\* questions[i] = q
CallerReplace(i, q) ==
    /\ i \in 1..Len(callerQuestions)
    /\ callerQuestions[i] # q
    /\ callerQuestions' = [callerQuestions EXCEPT ![i] = q]
    /\ UNCHANGED <<questions, responses, visibilityCache, requiredCache, disabledCache,
                   ret, callerResponses, twin>>

\* CallerSetResponse writing through to the engine, as if the engine had
\* kept the caller's record.
CallerSetResponseShared(id, r) ==
    /\ callerResponses' = MapSet(callerResponses, id, r)
    /\ responses' = MapSet(responses, id, r)
    /\ UNCHANGED <<questions, visibilityCache, requiredCache, disabledCache,
                   ret, callerQuestions, twin>>

\* responses[id] = r
CallerSetResponse(id, r) ==
    /\ callerResponses' = MapSet(callerResponses, id, r)
    /\ UNCHANGED <<questions, responses, visibilityCache, requiredCache, disabledCache,
                   ret, callerQuestions, twin>>

\* delete responses[id]
CallerDeleteResponse(id) ==
    /\ MapHas(callerResponses, id)
    /\ callerResponses' = MapDelete(callerResponses, id)
    /\ UNCHANGED <<questions, responses, visibilityCache, requiredCache, disabledCache,
                   ret, callerQuestions, twin>>

\* The caller turns to the other engine.
SwitchEngine ==
    /\ responses' = twin.responses
    /\ visibilityCache' = twin.caches.v
    /\ requiredCache' = twin.caches.r
    /\ disabledCache' = twin.caches.d
    /\ twin' = [responses |-> responses, caches |-> Caches]
    /\ ret' = [NoReturn EXCEPT !.op = "switchEngine"]
    /\ UNCHANGED <<questions, callerQuestions, callerResponses>>

NextSnapshot ==
    \/ \E r \in ResponseValues : UpdateResponse("q1", r)
    \/ GetQuestionState("q5")
    \/ GetVisibleQuestions
    \/ GetDependentQuestions("q1")
    \/ \E q \in PushedQuestions : CallerPush(q)
    \/ CallerPop
    \/ \E q \in ReplacingQuestions : CallerReplace(1, q)
    \/ \E r \in ResponseValues : CallerSetResponse("q1", r)
    \/ CallerDeleteResponse("q1")
    \/ SwitchEngine

SpecSnapshot == InitSnapshot /\ [][NextSnapshot]_vars

\* C23: a step in which the caller's questions array or responses record
\* changes leaves the engine's fields, and with them every result of
\* getQuestionState, getVisibleQuestions and getDependentQuestions, as they
\* were; a step in which the engine's stored responses or caches change
\* (updateResponse and the queries) changes nothing of the caller's array
\* and record nor of the other engine; and every query answers from the
\* questions and responses of the engine it is called on.
C23_SnapshotIsolation ==
    [][/\ (callerQuestions' # callerQuestions \/ callerResponses' # callerResponses) =>
            /\ questions' = questions
            /\ responses' = responses
            /\ twin' = twin
            /\ \A id \in AllIds : ResultWith(Caches', id) = ResultWith(Caches, id)
            /\ VisibleWith(Caches') = VisibleWith(Caches)
       /\ ((responses' # responses \/ Caches' # Caches) /\ ~SwitchEngine) =>
            /\ callerResponses' = callerResponses
            /\ callerQuestions' = callerQuestions
            /\ twin' = twin
       /\ \A id \in AllIds, r \in ResponseValues :
            UpdateResponse(id, r) =>
                /\ callerResponses' = callerResponses
                /\ twin' = twin
       /\ \A id \in AllIds :
            GetQuestionState(id) => ret'.state = FreshResult(id)
       /\ \A id \in AllIds :
            GetDependentQuestions(id) => ret'.ids = TransitiveDependents(id)
       /\ GetVisibleQuestions =>
            ret'.ids = {id \in KnownIds : FreshResult(id).visible}]_vars

\* The caller's record says q1 is true and its array has lost q5, the other
\* engine has stored q1 = false, and this engine, which has no response for
\* q1, has just computed q5 as hidden.
C23_Witness ==
    /\ ret.op = "getQuestionState" /\ ret.arg = "q5" /\ ret.evaluated = 1
    /\ ~MapHas(responses, "q1")
    /\ ~ret.state.visible
    /\ MapHas(callerResponses, "q1") /\ callerResponses["q1"] = Bool(TRUE)
    /\ Len(callerQuestions) < Len(questions)
    /\ MapHas(twin.responses, "q1") /\ twin.responses["q1"] = Bool(FALSE)

====
